---- MODULE Spec2Model ----
(***************************************************************************)
(* A model of src/main.rs: a minimal curl-like command line HTTP client.   *)
(* One invocation is one run of main(): echo the options, guard the        *)
(* scheme, parse the URL, probe host resolution, choose and send one       *)
(* request, check the status and render the body.                          *)
(*                                                                         *)
(* Strings the code inspects (the URL, the -d argument, JSON object keys)  *)
(* are sequences of one-character strings or of code points.  The outcomes *)
(* of the external collaborators (URL parser, resolver, HTTP client, JSON  *)
(* codec) are either tabulated on the concrete inputs of the model or      *)
(* chosen nondeterministically where they depend on the environment.       *)
(***************************************************************************)
EXTENDS Integers, Sequences, FiniteSets, TLC

VARIABLES
    opt,        \* the Opt record produced by Opt::from_args()   (main.rs:10-24)
    method,     \* local `method`                                 (main.rs:27)
    pc,         \* position of main()
    parsed_url, \* local `parsed_url`                             (main.rs:45)
    response,   \* local `response`: the status received          (main.rs:71)
    body,       \* local `body`                                   (main.rs:105)
    output,     \* the lines printed to standard output, in order
    requests,   \* the requests handed to the HTTP client's send(), in order
    steps,      \* history of the stages main() went through
    exit        \* how the process ended

vars == <<opt, method, pc, parsed_url, response, body, output, requests, steps, exit>>

----------------------------------------------------------------------------
(* Bounds of the model *)

\* longest -d argument, in characters
MaxDataLen == 3
\* most "key": value members in a response body that is a JSON object
MaxEntries == 2

----------------------------------------------------------------------------
(* Option<String> *)

NoneStr == [some |-> FALSE, val |-> <<>>]
Some(s) == [some |-> TRUE, val |-> s]

----------------------------------------------------------------------------
(* Character strings *)

\* str::starts_with
StartsWith(s, p) == Len(s) >= Len(p) /\ SubSeq(s, 1, Len(p)) = p

\* index of the first occurrence of character c in s, 0 when there is none
FirstIndex(s, c) ==
    IF \E i \in 1..Len(s) : s[i] = c
    THEN CHOOSE i \in 1..Len(s) : s[i] = c /\ \A j \in 1..(i-1) : s[j] /= c
    ELSE 0

RECURSIVE Split(_, _)
\* str::split on a one-character pattern: every piece between occurrences,
\* empty pieces included; the empty string gives one empty piece
Split(s, c) ==
    LET i == FirstIndex(s, c)
    IN  IF i = 0 THEN <<s>>
        ELSE <<SubSeq(s, 1, i-1)>> \o Split(SubSeq(s, i+1, Len(s)), c)

RECURSIVE SeqsUpTo(_, _)
SeqsUpTo(S, n) ==
    IF n = 0 THEN {<<>>}
    ELSE LET shorter == SeqsUpTo(S, n-1)
         IN  shorter \cup {Append(s, x) : s \in {t \in shorter : Len(t) = n-1}, x \in S}

HTTP  == <<"h","t","t","p",":","/","/">>
HTTPS == <<"h","t","t","p","s",":","/","/">>

----------------------------------------------------------------------------
(* The inputs of the model *)

UrlGood      == HTTP \o <<"x","/">>
UrlGoodTls   == HTTPS \o <<"x","/">>
UrlNoScheme  == <<"x">>
UrlUpper     == <<"H","T","T","P",":","/","/","x","/">>
UrlFtp       == <<"f","t","p",":","/","/","x","/">>
UrlBadV6     == HTTP \o <<"[",":",":","g","]","/">>
UrlBadV4     == HTTP \o <<"1",".","2",".","3",".","2","5","6","/">>
UrlBadPort   == HTTP \o <<"x",":","9","9","9","9","9","/">>
UrlEmptyHost == HTTP

Urls == {UrlGood, UrlGoodTls, UrlNoScheme, UrlUpper, UrlFtp,
         UrlBadV6, UrlBadV4, UrlBadPort, UrlEmptyHost}

Methods == {"GET", "POST", "post"}

DataChars == {"a", "=", "&"}
DataArgs == SeqsUpTo(DataChars, MaxDataLen)

JsonGood == <<"{","\"","k","\"",":","1","}">>
JsonBad  == <<"{","o","o","p","s">>
JsonArgs == {JsonGood, JsonBad}

Opts == [url : Urls,
         method : Methods,
         data : {NoneStr} \cup {Some(d) : d \in DataArgs},
         json : {NoneStr} \cup {Some(j) : j \in JsonArgs}]

----------------------------------------------------------------------------
(* The URL parser (url::Url::parse), tabulated on Urls *)

NoHost == <<>>

\* the parser's verdict on each URL of the model: Ok with the host, or Err
\* with the error's text
UrlParse(u) ==
    CASE u = UrlBadV6     -> [ok |-> FALSE, err |-> "invalid IPv6 address", host |-> NoHost]
      [] u = UrlBadV4     -> [ok |-> FALSE, err |-> "invalid IPv4 address", host |-> NoHost]
      [] u = UrlBadPort   -> [ok |-> FALSE, err |-> "invalid port number", host |-> NoHost]
      [] u = UrlEmptyHost -> [ok |-> FALSE, err |-> "empty host", host |-> NoHost]
      [] u = UrlNoScheme  -> [ok |-> FALSE, err |-> "relative URL without a base", host |-> NoHost]
      [] OTHER            -> [ok |-> TRUE, err |-> "", host |-> <<"x">>]

NoUrl == [ok |-> FALSE, err |-> "", host |-> NoHost]

\* the diagnostic chosen for a parse error (the chain of contains() tests)
ParseDiagnostic(err) ==
    IF err = "invalid IPv6 address" THEN "The URL contains an invalid IPv6 address."
    ELSE IF err = "invalid IPv4 address" THEN "The URL contains an invalid IPv4 address."
    ELSE IF err = "invalid port number" THEN "The URL contains an invalid port number."
    ELSE err

\* the scheme guard's test on the raw URL string
HasBaseProtocol(u) == StartsWith(u, HTTP) \/ StartsWith(u, HTTPS)

----------------------------------------------------------------------------
(* Argument handling *)

\* variant: the -X value is upper-cased before it is used
EffectiveMethod_Upper(o) ==
    IF o.json.some THEN "POST" ELSE IF o.method = "post" THEN "POST" ELSE o.method

\* the effective method
EffectiveMethod(o) == IF o.json.some THEN "POST" ELSE o.method

\* serde_json::from_str on the --json argument, tabulated on JsonArgs
JsonArgParses(j) == j = JsonGood

\* the loop over data.split("&"): one (key, value) per token, key and value
\* the first and second piece of token.split("=")
FormTokens(data) == Split(data, "&")

FormPair(token) ==
    LET key_value == Split(token, "=")
    IN  <<key_value[1], key_value[2]>>

\* the second next().unwrap() panics on a token without "="
FormPanics(data) ==
    \E i \in 1..Len(FormTokens(data)) : Len(Split(FormTokens(data)[i], "=")) < 2

FormPairs(data) ==
    [i \in 1..Len(FormTokens(data)) |-> FormPair(FormTokens(data)[i])]

----------------------------------------------------------------------------
(* Output lines and requests *)

Line(tag, text, arg) == [tag |-> tag, text |-> text, arg |-> arg]
Diag(text) == Line("Error", text, <<>>)

MsgScheme  == "The URL does not have a valid base protocol."
MsgResolve == "Unable to connect to the server. Perhaps the network is offline or the server hostname cannot be resolved."
MsgNoData  == "POST method requires data to be specified with -d."
MsgStatus  == "Request failed with status code"
MsgPretty  == "Failed to format JSON"

\* variant: the JSON body is sent without its Content-Type header
JsonRequest_NoHeader(u, json_data) ==
    [shape |-> "POST-json", verb |-> "POST", url |-> u,
     contentType |-> "", body |-> json_data, pairs |-> <<>>]

JsonRequest(u, json_data) ==
    [shape |-> "POST-json", verb |-> "POST", url |-> u,
     contentType |-> "application/json", body |-> json_data, pairs |-> <<>>]

FormRequest(u, pairs) ==
    [shape |-> "POST-form", verb |-> "POST", url |-> u,
     contentType |-> "application/x-www-form-urlencoded", body |-> <<>>, pairs |-> pairs]

GetRequest(u) ==
    [shape |-> "GET", verb |-> "GET", url |-> u,
     contentType |-> "", body |-> <<>>, pairs |-> <<>>]

----------------------------------------------------------------------------
(* Response bodies and the JSON codec *)

\* object keys are sequences of code points: "B", "a", "aB"
KeyB  == <<66>>
Keya  == <<97>>
KeyaB == <<97, 66>>
Keys == {KeyB, Keya, KeyaB}

\* member values are opaque to the program; the second one is a nested
\* object whose own keys are out of order
Values == {"1", "{\"z\":0,\"y\":0}"}

Entry(k, v) == [key |-> k, value |-> v]
Entries == {Entry(k, v) : k \in Keys, v \in Values}

Body(kind, entries, text) == [kind |-> kind, entries |-> entries, text |-> text]

\* the bodies a server may answer with: JSON objects (members in document
\* order, keys possibly repeated), a JSON value that is no object, plain text
ObjectBodies == {Body("object", e, <<>>) : e \in SeqsUpTo(Entries, MaxEntries)}
OtherJsonBodies == {Body("value", <<>>, <<"[","1","]">>)}
TextBodies == {Body("text", <<>>, t) : t \in {<<"o","k","\n","\n">>, <<"o","k">>, <<" ">>}}
Bodies == ObjectBodies \cup OtherJsonBodies \cup TextBodies

\* no body read yet
NoBody == Body("none", <<>>, <<>>)

\* String's Ord: lexicographic on code points
KeyLess(a, b) ==
    \E i \in 1..(Len(a) + 1) :
       /\ i <= Len(b)
       /\ \A j \in 1..(i-1) : j <= Len(a) /\ a[j] = b[j]
       /\ (i = Len(a) + 1 \/ a[i] < b[i])

\* a serde_json::Map is the sequence of its entries in iteration order, keys
\* unique.  insert() replaces the value of a key already there, in place;
\* a new key goes to the end when the crate is built with preserve_order
\* and to its sorted place otherwise.
MapHas(m, k) == \E i \in 1..Len(m) : m[i].key = k

MapGet(m, k) == m[CHOOSE i \in 1..Len(m) : m[i].key = k].value

MapInsert(m, k, v, preserve_order) ==
    IF MapHas(m, k)
    THEN [i \in 1..Len(m) |-> IF m[i].key = k THEN Entry(k, v) ELSE m[i]]
    ELSE IF preserve_order
         THEN Append(m, Entry(k, v))
         ELSE LET n == Cardinality({i \in 1..Len(m) : KeyLess(m[i].key, k)})
              IN  SubSeq(m, 1, n) \o <<Entry(k, v)>> \o SubSeq(m, n+1, Len(m))

RECURSIVE MapFrom(_, _)
\* the map from_str builds from an object's members, in document order
MapFrom(entries, preserve_order) ==
    IF entries = <<>> THEN <<>>
    ELSE LET last == entries[Len(entries)]
         IN  MapInsert(MapFrom(SubSeq(entries, 1, Len(entries)-1), preserve_order),
                       last.key, last.value, preserve_order)

\* map.keys().collect()
MapKeys(m) == [i \in 1..Len(m) |-> m[i].key]

\* variant: the keys are left in the map's iteration order
SortKeys_Unsorted(keys) == keys

RECURSIVE SortKeys(_)
\* keys.sort(): ascending, stable
SortKeys(keys) ==
    IF keys = <<>> THEN <<>>
    ELSE LET i == CHOOSE i \in 1..Len(keys) :
                     /\ \A j \in 1..Len(keys) : ~KeyLess(keys[j], keys[i])
                     /\ \A j \in 1..(i-1) : KeyLess(keys[i], keys[j])
         IN  <<keys[i]>> \o SortKeys(SubSeq(keys, 1, i-1) \o SubSeq(keys, i+1, Len(keys)))

RECURSIVE InsertAll(_, _, _, _)
\* for key in keys { sorted_json.insert(key.clone(), map[key].clone()) }
InsertAll(sorted_json, keys, map, preserve_order) ==
    IF keys = <<>> THEN sorted_json
    ELSE InsertAll(MapInsert(sorted_json, keys[1], MapGet(map, keys[1]), preserve_order),
                   SubSeq(keys, 2, Len(keys)), map, preserve_order)

\* main.rs:107-114: the object handed to the pretty printer
SortedJson(json, preserve_order) ==
    IF json.kind = "object"
    THEN LET map == MapFrom(json.entries, preserve_order)
         IN  InsertAll(<<>>, SortKeys(MapKeys(map)), map, preserve_order)
    ELSE <<>>

----------------------------------------------------------------------------
(* The program *)

Init ==
    /\ opt \in Opts
    /\ method = ""
    /\ pc = "echo"
    /\ parsed_url = NoUrl
    /\ response = 0
    /\ body = NoBody
    /\ output = <<>>
    /\ requests = <<>>
    /\ steps = <<>>
    /\ exit = "running"

\* variant: the diagnostic is printed but the process exits with code 0
ExitWith_Code0(text, step) ==
    /\ output' = Append(output, Diag(text))
    /\ steps' = Append(steps, step)
    /\ exit' = "exit0"
    /\ pc' = "exited"

\* std::process::exit(1) after printing a diagnostic
ExitWith(text, step) ==
    /\ output' = Append(output, Diag(text))
    /\ steps' = Append(steps, step)
    /\ exit' = "exit1"
    /\ pc' = "exited"

\* main.rs:26-38
Echo ==
    /\ pc = "echo"
    /\ method' = EffectiveMethod(opt)
    /\ output' = <<Line("Requesting URL", "", opt.url),
                   Line("Method", EffectiveMethod(opt), <<>>)>>
                 \o (IF opt.data.some THEN <<Line("Data", "", opt.data.val)>> ELSE <<>>)
                 \o (IF opt.json.some THEN <<Line("JSON", "", opt.json.val)>> ELSE <<>>)
    /\ pc' = "guard"
    /\ UNCHANGED <<opt, parsed_url, response, body, requests, steps, exit>>

\* variant: the --json argument is validated before the scheme guard
SchemeGuard_JsonFirst ==
    /\ pc = "guard"
    /\ IF opt.json.some /\ ~JsonArgParses(opt.json.val)
       THEN /\ exit' = "panic"
            /\ pc' = "exited"
            /\ steps' = Append(steps, "json_invalid")
            /\ UNCHANGED output
       ELSE IF HasBaseProtocol(opt.url)
            THEN /\ pc' = "parse"
                 /\ steps' = Append(steps, "guard_ok")
                 /\ UNCHANGED <<output, exit>>
            ELSE ExitWith(MsgScheme, "guard_fail")
    /\ UNCHANGED <<opt, method, parsed_url, response, body, requests>>

\* main.rs:40-43
SchemeGuard ==
    /\ pc = "guard"
    /\ IF HasBaseProtocol(opt.url)
       THEN /\ pc' = "parse"
            /\ steps' = Append(steps, "guard_ok")
            /\ UNCHANGED <<output, exit>>
       ELSE ExitWith(MsgScheme, "guard_fail")
    /\ UNCHANGED <<opt, method, parsed_url, response, body, requests>>

\* main.rs:45-59
ParseUrl ==
    /\ pc = "parse"
    /\ LET r == UrlParse(opt.url)
       IN  IF r.ok
           THEN /\ parsed_url' = r
                /\ pc' = "resolve"
                /\ steps' = Append(steps, "parse_ok")
                /\ UNCHANGED <<output, exit>>
           ELSE /\ ExitWith(ParseDiagnostic(r.err), "parse_fail")
                /\ UNCHANGED parsed_url
    /\ UNCHANGED <<opt, method, response, body, requests>>

\* variant: a failed probe prints its diagnostic and the run goes on
Resolve_ContinuesOnFailure ==
    /\ pc = "resolve"
    /\ \E resolves \in BOOLEAN :
         IF resolves
         THEN /\ steps' = Append(steps, "resolve_ok")
              /\ UNCHANGED output
         ELSE /\ steps' = Append(steps, "resolve_fail")
              /\ output' = Append(output, Diag(MsgResolve))
    /\ pc' = "request"
    /\ UNCHANGED <<opt, method, parsed_url, response, body, requests, exit>>

\* main.rs:61-68; whether host:port resolves is the environment's choice
Resolve ==
    /\ pc = "resolve"
    /\ IF parsed_url.host = NoHost
       THEN /\ pc' = "request"
            /\ steps' = Append(steps, "resolve_skip")
            /\ UNCHANGED <<output, exit>>
       ELSE \E resolves \in BOOLEAN :
              IF resolves
              THEN /\ pc' = "request"
                   /\ steps' = Append(steps, "resolve_ok")
                   /\ UNCHANGED <<output, exit>>
              ELSE ExitWith(MsgResolve, "resolve_fail")
    /\ UNCHANGED <<opt, method, parsed_url, response, body, requests>>

Statuses == {199, 200, 300, 404}

\* .send()?: the request goes to the HTTP client, which answers with a
\* status or reports a transport error that main() returns
Send(req) ==
    /\ requests' = Append(requests, req)
    /\ \E transport_ok \in BOOLEAN :
         IF transport_ok
         THEN /\ \E status \in Statuses : response' = status
              /\ steps' = Append(steps, "send")
              /\ pc' = "status"
              /\ UNCHANGED <<output, exit>>
         ELSE /\ steps' = steps \o <<"send", "transport_err">>
              /\ exit' = "err"
              /\ pc' = "exited"
              /\ UNCHANGED <<output, response>>

\* panic!() or unwrap() on None
Panic(step) ==
    /\ exit' = "panic"
    /\ pc' = "exited"
    /\ steps' = Append(steps, step)
    /\ UNCHANGED <<output, response, requests>>

\* main.rs:71-81
RequestJson ==
    /\ pc = "request"
    /\ opt.json.some
    /\ IF JsonArgParses(opt.json.val)
       THEN Send(JsonRequest(opt.url, opt.json.val))
       ELSE Panic("json_invalid")
    /\ UNCHANGED <<opt, method, parsed_url, body>>

\* variant: POST without -d falls through to the GET branch
RequestForm_GetWithoutData ==
    /\ pc = "request"
    /\ ~opt.json.some
    /\ method = "POST"
    /\ IF opt.data.some
       THEN IF FormPanics(opt.data.val)
            THEN Panic("form_unwrap")
            ELSE Send(FormRequest(opt.url, FormPairs(opt.data.val)))
       ELSE Send(GetRequest(opt.url))
    /\ UNCHANGED <<opt, method, parsed_url, body>>

\* main.rs:82-95
RequestForm ==
    /\ pc = "request"
    /\ ~opt.json.some
    /\ method = "POST"
    /\ IF opt.data.some
       THEN IF FormPanics(opt.data.val)
            THEN Panic("form_unwrap")
            ELSE Send(FormRequest(opt.url, FormPairs(opt.data.val)))
       ELSE /\ ExitWith(MsgNoData, "no_data")
            /\ UNCHANGED <<response, requests>>
    /\ UNCHANGED <<opt, method, parsed_url, body>>

\* main.rs:96-98
RequestGet ==
    /\ pc = "request"
    /\ ~opt.json.some
    /\ method /= "POST"
    /\ Send(GetRequest(opt.url))
    /\ UNCHANGED <<opt, method, parsed_url, body>>

\* variant: redirects count as success
IsSuccess_Below400(status) == 200 <= status /\ status <= 399

\* response.status().is_success()
IsSuccess(status) == 200 <= status /\ status <= 299

\* variant: a non-2xx status sends the request again
CheckStatus_Retry ==
    /\ pc = "status"
    /\ pc' = IF IsSuccess(response) THEN "render" ELSE "request"
    /\ UNCHANGED <<opt, method, parsed_url, response, body, requests, output, exit, steps>>

\* main.rs:100-103
CheckStatus ==
    /\ pc = "status"
    /\ IF IsSuccess(response)
       THEN /\ pc' = "render"
            /\ UNCHANGED <<output, exit, steps>>
       ELSE /\ output' = Append(output, Line("Error", MsgStatus, response))
            /\ steps' = Append(steps, "bad_status")
            /\ exit' = "exit1"
            /\ pc' = "exited"
    /\ UNCHANGED <<opt, method, parsed_url, response, body, requests>>

Whitespace == {" ", "\n"}

RECURSIVE TrimEnd(_)
\* str::trim_end
TrimEnd(s) ==
    IF s /= <<>> /\ s[Len(s)] \in Whitespace THEN TrimEnd(SubSeq(s, 1, Len(s)-1)) ELSE s

\* serde_json::from_str::<Value>(&body).is_ok()
BodyParses(text) == text.kind \in {"object", "value"}

\* main.rs:105-125.  Reading the body may fail (text()?), and so may the
\* pretty printer as far as main() is concerned; the build may or may not
\* enable serde_json's preserve_order.
Render ==
    /\ pc = "render"
    /\ \/ /\ exit' = "err"
          /\ steps' = Append(steps, "transport_err")
          /\ UNCHANGED <<output, body>>
       \/ \E text \in Bodies, preserve_order \in BOOLEAN, pretty_ok \in BOOLEAN :
            /\ body' = text
            /\ IF BodyParses(text)
               THEN IF pretty_ok
                    THEN /\ output' = Append(output,
                                 Line("Response body (JSON with sorted keys)", "",
                                      SortedJson(text, preserve_order)))
                         /\ steps' = Append(steps, "render_json")
                         /\ exit' = "exit0"
                    ELSE /\ output' = Append(output, Diag(MsgPretty))
                         /\ steps' = Append(steps, "pretty_fail")
                         /\ exit' = "exit1"
               ELSE /\ output' = Append(output, Line("Response body", "", TrimEnd(text.text)))
                    /\ steps' = Append(steps, "render_text")
                    /\ exit' = "exit0"
    /\ pc' = "exited"
    /\ UNCHANGED <<opt, method, parsed_url, response, requests>>

Next ==
    \/ Echo
    \/ SchemeGuard
    \/ ParseUrl
    \/ Resolve
    \/ RequestJson
    \/ RequestForm
    \/ RequestGet
    \/ CheckStatus
    \/ Render

Spec == Init /\ [][Next]_vars

----------------------------------------------------------------------------
(* Vocabulary of the properties *)

Sent == Len(requests) > 0
Exited == pc = "exited"
Happened(step) == \E i \in 1..Len(steps) : steps[i] = step

\* the diagnostics printed so far, in order
Diagnostics == SelectSeq(output, LAMBDA l : l.tag = "Error")
LastLine == output[Len(output)]
RenderTags == {"Response body", "Response body (JSON with sorted keys)"}
Rendered == \E i \in 1..Len(output) : output[i].tag \in RenderTags

\* ASCII upper-casing, on Methods
ToUpper(m) == IF m = "post" THEN "POST" ELSE m

----------------------------------------------------------------------------
(* C1 *)

\* C1: the stages happen in a fixed order.  A request is sent only as the
\* fourth stage, after the scheme guard passed, then the URL parsed, then the
\* resolution probe succeeded (or was skipped for a URL without host); the
\* probe is attempted only after guard and parse passed; and no request is
\* sent in a run whose guard, parse or resolution failed.
C1_StageOrder ==
    /\ Sent <=> Happened("send")
    /\ \A i \in 1..Len(steps) :
         /\ steps[i] \in {"parse_ok", "parse_fail"} =>
               i = 2 /\ steps[1] = "guard_ok"
         /\ steps[i] \in {"resolve_ok", "resolve_fail", "resolve_skip"} =>
               i = 3 /\ steps[1] = "guard_ok" /\ steps[2] = "parse_ok"
         /\ steps[i] = "resolve_skip" => parsed_url.host = NoHost
         /\ steps[i] = "send" =>
               /\ i = 4
               /\ steps[1] = "guard_ok"
               /\ steps[2] = "parse_ok"
               /\ steps[3] \in {"resolve_ok", "resolve_skip"}
    /\ (Happened("guard_fail") \/ Happened("parse_fail") \/ Happened("resolve_fail"))
          => ~Sent

C1_Witness ==
    /\ Sent
    /\ SubSeq(steps, 1, 4) = <<"guard_ok", "parse_ok", "resolve_ok", "send">>

----------------------------------------------------------------------------
(* C2 *)

\* the last stage of a run that ended on an error path of the error table
ErrorSteps == {"guard_fail", "parse_fail", "resolve_fail", "no_data",
               "json_invalid", "bad_status", "pretty_fail", "transport_err"}
OnErrorPath == Exited /\ steps[Len(steps)] \in ErrorSteps

\* C2 as stated: every run that ends on an error path of the table ends
\* with exit code 1, or abnormally for the invalid-JSON and transport cases,
\* and no request has been issued in it.
C2_Original ==
    OnErrorPath =>
        LET last == steps[Len(steps)]
        IN  /\ exit = (IF last = "json_invalid" THEN "panic"
                       ELSE IF last = "transport_err" THEN "err" ELSE "exit1")
            /\ ~Sent

\* C2 amended: every error path of the table ends with exit code 1
\* (abnormally for an invalid --json argument and for a transport failure).
\* On the paths taken before the request (bad scheme, URL parse, resolution,
\* POST without data, invalid JSON argument) no request has been issued; a
\* non-2xx response, a pretty-print failure and a transport failure end the
\* run after exactly one request was issued.
C2_ErrorPaths ==
    OnErrorPath =>
        LET last == steps[Len(steps)]
        IN  /\ exit = (IF last = "json_invalid" THEN "panic"
                       ELSE IF last = "transport_err" THEN "err" ELSE "exit1")
            /\ IF last \in {"bad_status", "pretty_fail", "transport_err"}
               THEN Len(requests) = 1
               ELSE ~Sent

C2_Witness ==
    /\ Exited
    /\ exit = "exit1"
    /\ steps[Len(steps)] = "bad_status"
    /\ Len(requests) = 1

----------------------------------------------------------------------------
(* C3 *)

\* C3 as stated: without --json the effective method is the upper-cased -X
\* value: it is what the Method line echoes, and it selects the request.
C3_Original ==
    (pc /= "echo" /\ ~opt.json.some) =>
        /\ method = ToUpper(opt.method)
        /\ output[2].tag = "Method" /\ output[2].text = ToUpper(opt.method)
        /\ Sent => requests[1].shape =
                     (IF ToUpper(opt.method) = "POST" THEN "POST-form" ELSE "GET")

\* C3 amended: without --json the effective method is the -X value as given,
\* case preserved: it is what the Method line echoes, and the request is a
\* POST-form only when it is exactly "POST"; any other value, "post"
\* included, gives a GET.
C3_MethodVerbatim ==
    (pc /= "echo" /\ ~opt.json.some) =>
        /\ method = opt.method
        /\ output[2].tag = "Method" /\ output[2].text = opt.method
        /\ Sent => requests[1].shape =
                     (IF opt.method = "POST" THEN "POST-form" ELSE "GET")

C3_Witness ==
    /\ pc /= "echo"
    /\ ~opt.json.some
    /\ opt.method = "post"
    /\ opt.data = Some(<<"a", "=", "a">>)
    /\ output[2].text = "post"
    /\ Sent
    /\ requests[1].shape = "GET"

----------------------------------------------------------------------------
(* C4 *)

\* the pair the claim describes: the token cut at its first "=" only
FirstEqualsPair(token) ==
    LET i == FirstIndex(token, "=")
    IN  <<SubSeq(token, 1, i-1), SubSeq(token, i+1, Len(token))>>

\* C4: the pairs of a POST-form request are, in the order of the
\* "&"-separated tokens of -d, one pair per token, the token cut at its
\* first "=" only: the key before it, the value everything after it.
C4_FirstEqualsSplit ==
    \A r \in 1..Len(requests) :
        requests[r].shape = "POST-form" =>
            LET tokens == Split(opt.data.val, "&")
            IN  /\ Len(requests[r].pairs) = Len(tokens)
                /\ \A i \in 1..Len(tokens) :
                      requests[r].pairs[i] = FirstEqualsPair(tokens[i])

----------------------------------------------------------------------------
(* C5 *)

\* C5: with --json present the effective method is POST whatever -X says,
\* the Method line echoes POST, and any request issued is the POST-json
\* shape, with Content-Type application/json and the --json argument as its
\* body, unchanged; -d alongside never makes it a POST-form or a GET.
C5_JsonForcesPost ==
    (pc /= "echo" /\ opt.json.some) =>
        /\ method = "POST"
        /\ output[2].tag = "Method" /\ output[2].text = "POST"
        /\ \A r \in 1..Len(requests) :
              /\ requests[r].shape = "POST-json"
              /\ requests[r].verb = "POST"
              /\ requests[r].contentType = "application/json"
              /\ requests[r].body = opt.json.val
              /\ requests[r].url = opt.url

C5_Witness ==
    /\ opt.json.some
    /\ opt.data.some
    /\ opt.method = "GET"
    /\ Sent
    /\ requests[1].shape = "POST-json"

----------------------------------------------------------------------------
(* C6 *)

\* C6: after a status outside 200..299 the run ends with exit code 1, its
\* last line the status diagnostic carrying the code, and no response body
\* line was printed; exit code 0 is reached only after a 2xx status and
\* with the body rendered as the last line.
C6_Non2xx ==
    /\ (Exited /\ response /= 0 /\ response \notin 200..299) =>
          /\ exit = "exit1"
          /\ LastLine.tag = "Error"
          /\ LastLine.text = MsgStatus
          /\ LastLine.arg = response
          /\ ~Rendered
    /\ exit = "exit0" =>
          /\ response \in 200..299
          /\ LastLine.tag \in RenderTags

C6_Witness ==
    /\ Exited
    /\ response = 404
    /\ exit = "exit1"
    /\ LastLine.text = MsgStatus

----------------------------------------------------------------------------
(* C7 *)

\* the run got as far as choosing the request, without --json, method POST
PostSelected ==
    /\ Exited \/ pc = "status"
    /\ Happened("resolve_ok") \/ Happened("resolve_skip")
    /\ ~opt.json.some
    /\ method = "POST"

NoDataDiagnosed == \E i \in 1..Len(output) : output[i] = Diag(MsgNoData)

\* C7 as stated: POST without --json and without -d prints the diagnostic
\* and exits 1 with no request issued; with -d present the diagnostic is
\* not printed and a POST-form request is issued.
C7_Original ==
    PostSelected =>
        IF opt.data.some
        THEN /\ ~NoDataDiagnosed
             /\ Len(requests) = 1
             /\ requests[1].shape = "POST-form"
        ELSE /\ NoDataDiagnosed
             /\ exit = "exit1"
             /\ ~Sent

\* C7 amended: POST without --json and without -d prints the diagnostic and
\* exits 1 with no request issued; with -d present the diagnostic is not
\* printed, and a POST-form request is issued when every "&"-separated
\* token of -d contains "=", while a token without "=" ends the run
\* abnormally with no request issued.
C7_PostNeedsData ==
    PostSelected =>
        IF opt.data.some
        THEN /\ ~NoDataDiagnosed
             /\ IF \A i \in 1..Len(Split(opt.data.val, "&")) :
                      FirstIndex(Split(opt.data.val, "&")[i], "=") /= 0
                THEN Len(requests) = 1 /\ requests[1].shape = "POST-form"
                ELSE exit = "panic" /\ ~Sent
        ELSE /\ NoDataDiagnosed
             /\ LastLine = Diag(MsgNoData)
             /\ exit = "exit1"
             /\ ~Sent

C7_Witness ==
    /\ PostSelected
    /\ opt.data = Some(<<"a", "&", "=">>)
    /\ exit = "panic"
    /\ ~Sent

----------------------------------------------------------------------------
(* C8 *)

\* the object printed under "Response body (JSON with sorted keys)"
RenderedObject == LastLine.arg

\* C8: when a 2xx body that is a JSON object has been rendered, the printed
\* object has its keys in strictly ascending code point order, its keys are
\* exactly the top-level keys of the body, and each key carries the value
\* the body gives it (its last member of that key), unchanged.
C8_SortedKeys ==
    (exit = "exit0" /\ body.kind = "object") =>
        /\ LastLine.tag = "Response body (JSON with sorted keys)"
        /\ \A i \in 1..(Len(RenderedObject) - 1) :
              KeyLess(RenderedObject[i].key, RenderedObject[i+1].key)
        /\ {RenderedObject[i].key : i \in 1..Len(RenderedObject)}
              = {body.entries[i].key : i \in 1..Len(body.entries)}
        /\ \A i \in 1..Len(RenderedObject) :
              \E j \in 1..Len(body.entries) :
                 /\ body.entries[j] = RenderedObject[i]
                 /\ \A k \in (j+1)..Len(body.entries) :
                       body.entries[k].key /= RenderedObject[i].key

C8_Witness ==
    /\ exit = "exit0"
    /\ body.kind = "object"
    /\ Len(body.entries) = 2
    /\ body.entries[1].key = Keya
    /\ body.entries[2].key = KeyB
    /\ body.entries[2].value /= "1"
    /\ RenderedObject = <<body.entries[2], body.entries[1]>>

----------------------------------------------------------------------------
(* C9 *)

\* C9: at most one request is sent in a run, whatever the arguments and the
\* outcome of each step.
C9_AtMostOneRequest == Len(requests) <= 1

C9_Witness ==
    /\ Exited
    /\ Len(requests) = 1
    /\ steps[Len(steps)] \in {"bad_status", "transport_err"}

----------------------------------------------------------------------------
(* C10 *)

SchemeFaults == {UrlNoScheme, UrlUpper, UrlFtp}
ParseFaults == {UrlBadV6, UrlBadV4, UrlBadPort, UrlEmptyHost}
ParseMessages == {"The URL contains an invalid IPv6 address.",
                  "The URL contains an invalid IPv4 address.",
                  "The URL contains an invalid port number.",
                  "empty host"}

\* C10: at most one diagnostic is printed in a run, and the first failing
\* check decides the outcome: a URL failing the scheme guard, failing to
\* parse, or whose host does not resolve ends the run with that check's
\* diagnostic and exit code 1, whatever the --json, -X and -d arguments are:
\* never abnormally, and never with the POST-requires-data diagnostic.
C10_FirstFaultWins ==
    /\ Len(Diagnostics) <= 1
    /\ Exited =>
          /\ opt.url \in SchemeFaults =>
                exit = "exit1" /\ Diagnostics = <<Diag(MsgScheme)>>
          /\ opt.url \in ParseFaults =>
                /\ exit = "exit1"
                /\ Len(Diagnostics) = 1
                /\ Diagnostics[1].text \in ParseMessages
          /\ Happened("resolve_fail") =>
                exit = "exit1" /\ Diagnostics = <<Diag(MsgResolve)>>
          /\ (opt.url \in SchemeFaults \cup ParseFaults \/ Happened("resolve_fail")) =>
                ~Sent /\ ~Happened("json_invalid") /\ ~Happened("no_data")

C10_Witness ==
    /\ Exited
    /\ opt.url \in ParseFaults
    /\ opt.json = Some(JsonBad)
    /\ opt.method = "POST"
    /\ ~opt.data.some
    /\ exit = "exit1"
    /\ Len(Diagnostics) = 1

====
